---- MODULE Spec2Model ----
(***************************************************************************)
(* Model of owntracks_location_import (src/src/main.rs): the transform of  *)
(* a flattened location-history frame into LocationRecords and the writer  *)
(* loop that partitions the record stream into rust_output/<y>-<m>.rec.    *)
(*                                                                         *)
(* An i64 nanosecond instant v is carried as the pair [s, n] with          *)
(* v = s * NanosPerSec + n and 0 <= n < NanosPerSec, because v itself does *)
(* not fit the integers of the model checker.                              *)
(***************************************************************************)
EXTENDS Integers, Sequences, FiniteSets, TLC

VARIABLES df, schema_ok, exclude_device, pc, lines, pos,
          active_file, active_lines, fs, creates, stdout

vars == <<df, schema_ok, exclude_device, pc, lines, pos,
          active_file, active_lines, fs, creates, stdout>>

\* ------------------------------------------------------------------ bounds
MaxRows == 4

\* --------------------------------------------------------------- constants
NanosPerSec == 1000000000
E7 == 10000000
SecsPerDay == 86400
PadSpaces == 17

\* ------------------------------------------------------------ cell values
\* A cell of an optional integer column: <<>> is null, <<v>> is the value v.
Null == <<>>
Some(v) == <<v>>
IsNull(c) == Len(c) = 0

\* A cell of the raw "timestamp" column: absent, a string that is no
\* timestamp, or a string that parses to the instant s seconds + n nanos.
TsAbsent == [tag |-> "null", s |-> 0, n |-> 0]
TsGarbage == [tag |-> "str", s |-> 0, n |-> 0]
TsAt(s, n) == [tag |-> "time", s |-> s, n |-> n]

\* A cell of a raw E7 coordinate column: absent, non-numeric, or an integer.
E7Absent == [tag |-> "null", v |-> 0]
E7Garbage == [tag |-> "str", v |-> 0]
E7Of(v) == [tag |-> "int", v |-> v]

\* ---------------------------------------------------------------- calendar
\* chrono: DateTime::from_timestamp_nanos splits with div_euclid/rem_euclid,
\* so the calendar fields come from the floor second s of the instant.
DaysOf(s) == s \div SecsPerDay
SecOfDay(s) == s % SecsPerDay

\* proleptic Gregorian date of a day count since 1970-01-01
CivilFromDays(days) ==
    LET z == days + 719468
        era == z \div 146097
        doe == z - era * 146097
        yoe == (doe - doe \div 1460 + doe \div 36524 - doe \div 146096) \div 365
        doy == doe - (365 * yoe + yoe \div 4 - yoe \div 100)
        mp == (5 * doy + 2) \div 153
        d == doy - (153 * mp + 2) \div 5 + 1
        m == IF mp < 10 THEN mp + 3 ELSE mp - 9
        y == yoe + era * 400 + (IF m <= 2 THEN 1 ELSE 0)
    IN [year |-> y, month |-> m, day |-> d]

\* LocationRecord::get_timestamp, as the broken-down UTC date-time
get_timestamp(nanos) ==
    LET c == CivilFromDays(DaysOf(nanos.s))
        sod == SecOfDay(nanos.s)
    IN [year |-> c.year, month |-> c.month, day |-> c.day,
        hour |-> sod \div 3600, minute |-> (sod % 3600) \div 60,
        second |-> sod % 60]

\* -------------------------------------------------------------- serializer
Digit(d) == <<"0", "1", "2", "3", "4", "5", "6", "7", "8", "9">>[d + 1]

\* the decimal digits of v, zero-padded on the left to width w
RECURSIVE Pad(_, _)
Pad(v, w) ==
    IF w = 0 THEN <<>> ELSE Append(Pad(v \div 10, w - 1), Digit(v % 10))

\* format("%Y-%m-%dT%H:%M:%SZ"), one character per element
FormatTimestamp(t) ==
    Pad(t.year, 4) \o <<"-">> \o Pad(t.month, 2) \o <<"-">> \o Pad(t.day, 2)
    \o <<"T">> \o Pad(t.hour, 2) \o <<":">> \o Pad(t.minute, 2)
    \o <<":">> \o Pad(t.second, 2) \o <<"Z">>

\* "acc": null is what serde writes for None without skip_serializing_if
OptFieldAsNull(key, opt) ==
    IF IsNull(opt) THEN <<<<key, "null">>>> ELSE <<<<key, opt[1]>>>>

\* #[serde(skip_serializing_if = "Option::is_none")] on an Option<i64> field
OptField(key, opt) == IF IsNull(opt) THEN <<>> ELSE <<<<key, opt[1]>>>>

\* serde_json::to_string(&LocationRecord): the members of the JSON object in
\* the order they are written; timestamp_nanos is #[serde(skip_serializing)]
to_string(r) ==
    << <<"_type", r.record_type>>, <<"tid", r.tid>>, <<"tst", r.tst>>,
       <<"lat", r.lat>>, <<"lon", r.lon>> >>
    \o OptField("acc", r.acc) \o OptField("alt", r.alt)
    \o OptField("vac", r.vac)

RECURSIVE Spaces(_)
Spaces(k) == IF k = 0 THEN <<>> ELSE Append(Spaces(k - 1), " ")

\* LocationRecord::create_owntrack_line: the characters of the timestamp,
\* the separator, the JSON object as one element, the newline
create_owntrack_line(r) ==
    FormatTimestamp(get_timestamp(r.timestamp_nanos))
    \o <<"\t", "*">> \o Spaces(PadSpaces) \o <<"\t">>
    \o <<to_string(r)>> \o <<"\n">>

\* line_file of the writer loop: rust_output/{year}-{month}.rec, kept as
\* the (year, month) it is formatted from; String::new() is NoFile
NoFile == <<>>
line_file(r) ==
    LET t == get_timestamp(r.timestamp_nanos) IN <<t.year, t.month>>

\* --------------------------------------------------------------- transform
\* (col(c).cast(Float64) / lit(10_000_000.0)): the lazy cast is not strict,
\* a cell that does not convert becomes null, and null / x is null.  The
\* quotient is kept as the exact fraction num / den.
CastDivE7(c) ==
    IF c.tag = "int" THEN Some([num |-> c.v, den |-> E7]) ELSE Null

\* a timestamp string that does not parse taken as the epoch
CastDatetimeDefault(c) ==
    IF c.tag = "null" THEN Null ELSE Some([s |-> c.s, n |-> c.n])

\* col("timestamp").cast(Datetime(Nanoseconds, UTC)): not strict either
CastDatetime(c) ==
    IF c.tag = "time" THEN Some([s |-> c.s, n |-> c.n]) ELSE Null

\* floor(v / NanosPerSec) of the instant v = s * NanosPerSec + n
FloorDivSecs(ts) == ts.s

\* cast(Int64) / lit(1_000_000_000): the Rust `/` of two integer columns
\* rounds the quotient toward zero.  For v >= 0 that is s; for v < 0 it is
\* s when n = 0 and s + 1 when n > 0.
TruncDivSecs(ts) ==
    IF ts.s < 0 /\ ts.n > 0 THEN ts.s + 1 ELSE ts.s

\* the columns of one row after with_columns(..).select(..)
Normalize(row) ==
    LET t == CastDatetime(row.timestamp)
    IN [lat |-> CastDivE7(row.latitudeE7),
        long |-> CastDivE7(row.longitudeE7),
        acc |-> row.accuracy, alt |-> row.altitude,
        vac |-> row.verticalAccuracy,
        timestamp |-> t,
        tst |-> IF IsNull(t) THEN Null ELSE Some(TruncDivSecs(t[1])),
        deviceTag |-> row.deviceTag]

\* three-valued column logic: "t", "f", or "n" for null
Neq3(cell, v) == IF IsNull(cell) THEN "n" ELSE IF cell[1] # v THEN "t" ELSE "f"
IsNull3(cell) == IF IsNull(cell) THEN "t" ELSE "f"
Or3(a, b) ==
    IF a = "t" \/ b = "t" THEN "t" ELSE IF a = "n" \/ b = "n" THEN "n" ELSE "f"

\* col("deviceTag").neq(lit(exclude_device)) alone, without the is_null arm
ExcludeMaskNoNullArm(r, excl) == Neq3(r.deviceTag, excl)

\* col("deviceTag").neq(lit(exclude_device)).or(col("deviceTag").is_null())
ExcludeMask(r, excl) == Or3(Neq3(r.deviceTag, excl), IsNull3(r.deviceTag))

\* col("lat").is_not_null()
LatMask(r) == IF IsNull(r.lat) THEN "f" ELSE "t"

\* filter keeps the rows whose mask is true (a null mask drops the row)
RECURSIVE FilterRows(_, _)
FilterRows(rows, excl) ==
    IF rows = <<>> THEN <<>>
    ELSE LET r == Head(rows)
             rest == FilterRows(Tail(rows), excl)
         IN IF ExcludeMask(r, excl) = "t" /\ LatMask(r) = "t"
            THEN <<r>> \o rest ELSE rest

\* ascending order of the sort column, nulls first (nulls_last = false)
KeyLeq(a, b) == IsNull(a) \/ (~IsNull(b) /\ a[1] <= b[1])

\* the rows left in their frame order: what the pipeline gives without
\* the sort
RECURSIVE FrameOrders(_, _)
FrameOrders(rows, S) ==
    IF S = {} THEN {<<>>}
    ELSE LET i == CHOOSE x \in S : \A y \in S : x <= y
         IN {<<i>> \o t : t \in FrameOrders(rows, S \ {i})}

\* .sort(["tst"], Default::default()): SortMultipleOptions::default() has
\* maintain_order = false, so the order of rows with equal tst is whatever
\* the unstable sort leaves; every ascending arrangement is an outcome.
RECURSIVE SortOrders(_, _)
SortOrders(rows, S) ==
    IF S = {} THEN {<<>>}
    ELSE UNION {{<<i>> \o t : t \in SortOrders(rows, S \ {i})} :
                i \in {x \in S : \A y \in S : KeyLeq(rows[x].tst, rows[y].tst)}}

\* row_vals[k].try_extract().unwrap() fails on a null lon, timestamp or tst
\* (lat is never null after the filter); Option fields take null as None
Unwraps(r) == ~IsNull(r.long) /\ ~IsNull(r.timestamp) /\ ~IsNull(r.tst)

\* the LocationRecord built from one row of the collected frame
ToRecord(r, tracker_id) ==
    [record_type |-> "location", tid |-> tracker_id,
     tst |-> r.tst[1], timestamp_nanos |-> r.timestamp[1],
     lat |-> r.lat[1], lon |-> r.long[1],
     acc |-> r.acc, alt |-> r.alt, vac |-> r.vac]

\* ------------------------------------------------------------------ inputs
TrackerId == "tt"
ExcludePool == {1, 2}

LatOk == E7Of(420000000)
LonOk == E7Of(640000000)

Row(tag, lat, lon, ts, acc, alt, vac) ==
    [deviceTag |-> tag, latitudeE7 |-> lat, longitudeE7 |-> lon,
     timestamp |-> ts, accuracy |-> acc, altitude |-> alt,
     verticalAccuracy |-> vac]

\* the raw rows the frames are drawn from
RowPool ==
    { \* 2015-01-11T12:12:00Z, the record of test_record_to_ot_line
      Row(Null, LatOk, LonOk, TsAt(1420978320, 0), Some(20), Null, Null),
      \* 1969-12-31T23:59:59.5Z
      Row(Null, LatOk, LonOk, TsAt(-1, NanosPerSec \div 2), Some(0), Some(5), Null),
      \* 1970-01-01T00:00:00Z
      Row(Some(2), LatOk, LonOk, TsAt(0, 0), Null, Null, Some(3)),
      \* 1970-01-01T00:00:01.5Z
      Row(Null, LatOk, LonOk, TsAt(1, NanosPerSec \div 2), Some(7), Some(0), Some(0)),
      \* latitude that is no number, timestamp absent
      Row(Some(2), E7Garbage, LonOk, TsAbsent, Null, Null, Null),
      \* timestamp that does not parse
      Row(Some(1), LatOk, LonOk, TsGarbage, Null, Some(5), Null),
      \* longitude absent, 1969-11-30T00:00:00Z
      Row(Null, LatOk, E7Absent, TsAt(-2764800, 0), Null, Null, Null) }

RECURSIVE Frames(_)
Frames(k) ==
    IF k = 0 THEN {<<>>}
    ELSE LET shorter == Frames(k - 1)
         IN shorter \cup {Append(f, r) : f \in {g \in shorter : Len(g) = k - 1},
                                          r \in RowPool}

\* ------------------------------------------------------------ the program
\* main before transform: the frame read() returned, the parsed arguments
Init ==
    /\ df \in Frames(MaxRows)
    /\ schema_ok \in BOOLEAN
    /\ exclude_device \in ExcludePool
    /\ pc = "transform"
    /\ lines = <<>>
    /\ pos = 0
    /\ active_file = NoFile
    /\ active_lines = <<>>
    /\ fs = <<>>
    /\ creates = <<>>
    /\ stdout = <<>>

\* the frame after with_columns, select and the two filters
Filtered ==
    FilterRows([i \in 1..Len(df) |-> Normalize(df[i])], exclude_device)

\* collect()? returns Err (a column the plan names is not in the frame) and
\* main's expect ends the run
TransformErr ==
    /\ pc = "transform"
    /\ ~schema_ok
    /\ pc' = "err"
    /\ UNCHANGED <<df, schema_ok, exclude_device, lines, pos, active_file,
                   active_lines, fs, creates, stdout>>

\* an unwrap in the row mapping panics
TransformPanic ==
    /\ pc = "transform"
    /\ schema_ok
    /\ \E i \in 1..Len(Filtered) : ~Unwraps(Filtered[i])
    /\ pc' = "panic"
    /\ UNCHANGED <<df, schema_ok, exclude_device, lines, pos, active_file,
                   active_lines, fs, creates, stdout>>

\* transform returns Ok(lines); the writer loop starts at the first record
TransformOk ==
    /\ pc = "transform"
    /\ schema_ok
    /\ \A i \in 1..Len(Filtered) : Unwraps(Filtered[i])
    /\ \E ord \in SortOrders(Filtered, 1..Len(Filtered)) :
          lines' = [k \in 1..Len(ord) |-> ToRecord(Filtered[ord[k]], TrackerId)]
    /\ pc' = "write"
    /\ pos' = 1
    /\ UNCHANGED <<df, schema_ok, exclude_device, active_file, active_lines,
                   fs, creates, stdout>>

\* a flush on every record, whatever its file
KeyAlwaysChanged(lf, af) == TRUE

\* match line_file == active_file { true => {} _ => { .. } }
KeyChanged(lf, af) == lf # af

\* the accumulator left as it was by the flush
NotDrained(al) == al

\* active_lines.drain(..) leaves the vector empty
Drained(al) == <<>>

\* File::create(path) truncates or creates; the lines are written in order
FileCreate(files, path, content) ==
    [q \in 1..Len(files) |-> files[q]]
    \o <<[path |-> path, content |-> content]>>

\* one iteration of `for lr in lines`
WriteLoop ==
    /\ pc = "write"
    /\ pos <= Len(lines)
    /\ LET lr == lines[pos]
           lf == line_file(lr)
           flush == KeyChanged(lf, active_file) /\ Len(active_lines) > 0
           kept == IF flush THEN Drained(active_lines) ELSE active_lines
       IN /\ fs' = IF flush
                   THEN FileCreate(SelectSeq(fs, LAMBDA e : e.path # active_file),
                                   active_file, active_lines)
                   ELSE fs
          /\ creates' = IF flush
                        THEN Append(creates, [path |-> active_file,
                                              content |-> active_lines,
                                              at |-> pos])
                        ELSE creates
          /\ active_file' = IF KeyChanged(lf, active_file) THEN lf
                            ELSE active_file
          /\ active_lines' = Append(kept, create_owntrack_line(lr))
    /\ pos' = pos + 1
    /\ UNCHANGED <<df, schema_ok, exclude_device, pc, lines, stdout>>

\* the loop is over: print!("{active_file}")
Finish ==
    /\ pc = "write"
    /\ pos > Len(lines)
    /\ stdout' = <<active_file>>
    /\ pc' = "done"
    /\ UNCHANGED <<df, schema_ok, exclude_device, lines, pos, active_file,
                   active_lines, fs, creates>>

Next == TransformErr \/ TransformPanic \/ TransformOk \/ WriteLoop \/ Finish

Spec == Init /\ [][Next]_vars

\* ------------------------------------------------------------ properties
\* transform has returned Ok
Returned == pc \in {"write", "done"}

\* the record a raw row stands for
RecordOf(row) == ToRecord(Normalize(row), TrackerId)

\* a raw row passes both filters: tag absent or other than the excluded
\* one, and a latitude that normalizes to a number
PassesRaw(row) ==
    /\ IsNull(row.deviceTag) \/ row.deviceTag[1] # exclude_device
    /\ row.latitudeE7.tag = "int"

Passing == {j \in 1..Len(df) : PassesRaw(df[j])}

\* the bucket key of the k-th record of the stream
KeyAt(k) == line_file(lines[k])

\* the serialized line of the k-th record of the stream
LineAt(k) == create_owntrack_line(lines[k])

\* the lines of the records a..b of the stream, in order
LinesOf(a, b) == [k \in 1..(b - a + 1) |-> LineAt(a + k - 1)]

\* all lines written to files, in the order of the File::create calls
RECURSIVE WrittenUpTo(_)
WrittenUpTo(c) ==
    IF c = 0 THEN <<>> ELSE WrittenUpTo(c - 1) \o creates[c].content

Written == WrittenUpTo(Len(creates))

\* the tst member of the JSON object of a serialized line
TstOfLine(l) == l[Len(l) - 1][3][2]

\* C1: the records transform returns are, one for one, the rows whose
\* device tag is absent or differs from exclude_device and whose latitude
\* is non-null: as many records as such rows, and every record value occurs
\* as often in the output as among those rows.
C1_OneToOne ==
    Returned =>
        /\ Len(lines) = Cardinality(Passing)
        /\ \A k \in 1..Len(lines) :
              Cardinality({i \in 1..Len(lines) : lines[i] = lines[k]})
              = Cardinality({j \in Passing : RecordOf(df[j]) = lines[k]})

C1_Witness ==
    /\ pc = "done"
    /\ Len(lines) >= 2
    /\ \E j \in 1..Len(df) :
          ~IsNull(df[j].deviceTag) /\ df[j].deviceTag[1] = exclude_device
    /\ \E j \in Passing : IsNull(df[j].deviceTag)
    /\ \E j \in 1..Len(df) : df[j].latitudeE7.tag # "int"

\* C2: after a complete run the files on disk are exactly the bucket keys
\* that occur in the record stream.
C2_FilesEqualKeys ==
    pc = "done" =>
        {fs[q].path : q \in 1..Len(fs)} = {KeyAt(k) : k \in 1..Len(lines)}

\* C3: the lines written to files, concatenated in flush order, are
\* non-decreasing in tst.
C3_WrittenNonDecreasing ==
    \A a \in 1..Len(Written) : \A b \in a..Len(Written) :
        TstOfLine(Written[a]) <= TstOfLine(Written[b])

C3_Witness ==
    /\ pc = "done"
    /\ Len(creates) >= 2
    /\ Len(Written) >= 3
    /\ \E j \in 1..(Len(df) - 1) :
          /\ df[j].timestamp.tag = "time" /\ df[j + 1].timestamp.tag = "time"
          /\ df[j].timestamp.s > df[j + 1].timestamp.s

\* the day count since 1970-01-01 of a proleptic Gregorian date
DaysFromCivil(y, m, d) ==
    LET yy == IF m <= 2 THEN y - 1 ELSE y
        era == yy \div 400
        yoe == yy - era * 400
        doy == (153 * (IF m > 2 THEN m - 3 ELSE m + 9) + 2) \div 5 + d - 1
        doe == yoe * 365 + yoe \div 4 - yoe \div 100 + doy
    IN era * 146097 + doe - 719468

Digits == {Digit(d) : d \in 0..9}
DigitVal(c) == CHOOSE d \in 0..9 : Digit(d) = c

\* the number a sequence of decimal digits reads as
RECURSIVE Number(_)
Number(ds) ==
    IF ds = <<>> THEN 0
    ELSE 10 * Number(SubSeq(ds, 1, Len(ds) - 1)) + DigitVal(ds[Len(ds)])

\* the first 20 elements of a line read as YYYY-MM-DDTHH:MM:SSZ
IsTimestampText(l) ==
    /\ \A p \in {1, 2, 3, 4, 6, 7, 9, 10, 12, 13, 15, 16, 18, 19} :
          l[p] \in Digits
    /\ l[5] = "-" /\ l[8] = "-" /\ l[11] = "T"
    /\ l[14] = ":" /\ l[17] = ":" /\ l[20] = "Z"

\* the epoch second the timestamp text of a line denotes
SecondsOfText(l) ==
    LET y == Number(SubSeq(l, 1, 4))
        m == Number(SubSeq(l, 6, 7))
        d == Number(SubSeq(l, 9, 10))
        hh == Number(SubSeq(l, 12, 13))
        mi == Number(SubSeq(l, 15, 16))
        ss == Number(SubSeq(l, 18, 19))
    IN DaysFromCivil(y, m, d) * SecsPerDay + hh * 3600 + mi * 60 + ss

\* the optional members a record must serialize, in order
PresentKeys(r) ==
    (IF IsNull(r.acc) THEN <<>> ELSE <<"acc">>)
    \o (IF IsNull(r.alt) THEN <<>> ELSE <<"alt">>)
    \o (IF IsNull(r.vac) THEN <<>> ELSE <<"vac">>)

ExpectedKeys(r) == <<"_type", "tid", "tst", "lat", "lon">> \o PresentKeys(r)

\* the value of the record field a JSON key names
FieldOf(r, key) ==
    CASE key = "_type" -> r.record_type
      [] key = "tid" -> r.tid
      [] key = "tst" -> r.tst
      [] key = "lat" -> r.lat
      [] key = "lon" -> r.lon
      [] key = "acc" -> r.acc[1]
      [] key = "alt" -> r.alt[1]
      [] key = "vac" -> r.vac[1]

LineFormOk(r, l) ==
    /\ Len(l) = 42
    /\ IsTimestampText(l)
    /\ Number(SubSeq(l, 6, 7)) \in 1..12 /\ Number(SubSeq(l, 9, 10)) \in 1..31
    /\ SecondsOfText(l) = r.timestamp_nanos.s
    /\ l[21] = "\t" /\ l[22] = "*"
    /\ \A p \in 23..39 : l[p] = " "
    /\ l[40] = "\t" /\ l[42] = "\n"
    /\ LET json == l[41]
       IN /\ [k \in 1..Len(json) |-> json[k][1]] = ExpectedKeys(r)
          /\ \A k \in 1..Len(json) : json[k][2] = FieldOf(r, json[k][1])

\* C4: every record serializes to one line: the UTC second of its
\* timestamp_nanos as YYYY-MM-DDTHH:MM:SSZ, TAB, '*', 17 spaces, TAB, a JSON
\* object whose keys are _type, tid, tst, lat, lon and then exactly the
\* present ones of acc, alt, vac, each with the record's value, NEWLINE; an
\* absent optional field gives no key, a present zero gives its key, and
\* timestamp_nanos is no key.
C4_LineFormat ==
    /\ \A k \in 1..Len(lines) : LineFormOk(lines[k], LineAt(k))
    /\ \A k \in 1..Len(lines) :
          lines[k].timestamp_nanos = [s |-> 1420978320, n |-> 0] =>
              SubSeq(LineAt(k), 1, 20) =
                  <<"2", "0", "1", "5", "-", "0", "1", "-", "1", "1", "T",
                    "1", "2", ":", "1", "2", ":", "0", "0", "Z">>

C4_Witness ==
    /\ pc = "done"
    /\ \E k \in 1..Len(lines) :
          /\ lines[k].acc = Some(0) /\ IsNull(lines[k].vac)
          /\ Len(LineAt(k)[41]) = 7
    /\ \E k \in 1..Len(lines) :
          lines[k].timestamp_nanos = [s |-> 1420978320, n |-> 0]

\* C5 as stated: tst is the floor of timestamp_nanos / 1_000_000_000 for
\* every record, also before the epoch.
C5_FloorSeconds ==
    \A k \in 1..Len(lines) :
        lines[k].tst = FloorDivSecs(lines[k].timestamp_nanos)

\* timestamp_nanos - tst * NanosPerSec, as an instant pair
Remainder(r) ==
    [s |-> r.timestamp_nanos.s - r.tst, n |-> r.timestamp_nanos.n]

\* C5 amended: tst is timestamp_nanos / 1_000_000_000 rounded toward zero:
\* the remainder timestamp_nanos - tst * 1_000_000_000 is smaller than a
\* second in magnitude and never of the sign opposite to timestamp_nanos.
\* So tst is the floor for instants at or after the epoch and for whole
\* seconds, and the floor plus one for the other instants before the epoch.
C5_TruncatedSeconds ==
    \A k \in 1..Len(lines) :
        LET v == lines[k].timestamp_nanos
            rem == Remainder(lines[k])
        IN /\ rem.s = 0 \/ (rem.s = -1 /\ rem.n > 0)
           /\ v.s >= 0 => rem.s >= 0
           /\ v.s < 0 => (rem.s < 0 \/ (rem.s = 0 /\ rem.n = 0))

C5_Witness ==
    /\ pc = "done"
    /\ \E k \in 1..Len(lines) :
          /\ lines[k].timestamp_nanos.s < 0 /\ lines[k].timestamp_nanos.n > 0
          /\ lines[k].tst = lines[k].timestamp_nanos.s + 1
    /\ \E k \in 1..Len(lines) : lines[k].timestamp_nanos.s > 0

\* the arrangement a stable sort gives: ascending tst, ties in frame order
StableOrder ==
    CHOOSE o \in SortOrders(Filtered, 1..Len(Filtered)) :
        \A a \in 1..Len(o) : \A b \in (a + 1)..Len(o) :
            Filtered[o[a]].tst = Filtered[o[b]].tst => o[a] < o[b]

\* C6: the sort is stable: surviving rows of equal tst keep their input
\* order, so the record sequence is the stable arrangement of the rows.
C6_StableSort ==
    Returned =>
        lines = [k \in 1..Len(Filtered) |->
                    ToRecord(Filtered[StableOrder[k]], TrackerId)]

\* C7: once the file of a bucket key is created, no later record of the
\* stream has that key and the file is not created again.
C7_SingleWrite ==
    \A c \in 1..Len(creates) :
        /\ \A k \in creates[c].at..Len(lines) : KeyAt(k) # creates[c].path
        /\ \A d \in (c + 1)..Len(creates) : creates[d].path # creates[c].path

\* the first record of the last run of equal keys of the stream
LastRunStart ==
    IF lines = <<>> THEN 1
    ELSE CHOOSE k \in 1..Len(lines) :
            /\ k = 1 \/ KeyAt(k) # KeyAt(k - 1)
            /\ \A j \in (k + 1)..Len(lines) : KeyAt(j) = KeyAt(k)

\* C8: a file is created only on a key change: the file of key K while the
\* first record after a run of K, a record of another key, is processed.
\* Nothing is written at the end of the stream: when the run completes the
\* files hold the lines of the records before the last run of equal keys,
\* and the lines of that last run are still in the accumulator (a stream of
\* one year-month leaves no file).
C8_FlushOnKeyChangeOnly ==
    /\ \A c \in 1..Len(creates) :
          /\ creates[c].at \in 2..Len(lines)
          /\ KeyAt(creates[c].at - 1) = creates[c].path
          /\ KeyAt(creates[c].at) # creates[c].path
    /\ pc = "done" =>
          /\ Written = LinesOf(1, LastRunStart - 1)
          /\ active_lines = LinesOf(LastRunStart, Len(lines))
          /\ lines # <<>> => active_lines # <<>>
          /\ LastRunStart = 1 => fs = <<>>
          /\ \A q \in 1..Len(fs) : \E c \in 1..Len(creates) :
                creates[c].path = fs[q].path /\ creates[c].content = fs[q].content

C8_Witness ==
    /\ pc = "done"
    /\ \E c \in 1..Len(creates) :
          creates[c].path = <<1969, 12>> /\ KeyAt(creates[c].at) = <<1970, 1>>
    /\ Len(active_lines) >= 1
    /\ Len(Written) < Len(lines)

\* the first record processed since the last flush
RunStart == IF creates = <<>> THEN 1 ELSE creates[Len(creates)].at

\* C9: at every point of the writer loop the accumulator holds, in stream
\* order, the lines of the records processed since the last flush, all of
\* the key active_file; every file written holds the lines of one maximal
\* run of records of its key; and the lines written followed by the
\* accumulator are the lines of the records processed, each once.
C9_AccumulatorIsCurrentRun ==
    Returned =>
        /\ active_lines = LinesOf(RunStart, pos - 1)
        /\ \A k \in RunStart..(pos - 1) : KeyAt(k) = active_file
        /\ \A c \in 1..Len(creates) :
              LET a == IF c = 1 THEN 1 ELSE creates[c - 1].at
                  b == creates[c].at - 1
              IN /\ a <= b
                 /\ creates[c].content = LinesOf(a, b)
                 /\ \A k \in a..b : KeyAt(k) = creates[c].path
                 /\ KeyAt(b + 1) # creates[c].path
                 /\ a > 1 => KeyAt(a - 1) # creates[c].path
        /\ Written \o active_lines = LinesOf(1, pos - 1)
        /\ \A q \in 1..Len(fs) : \E c \in 1..Len(creates) :
              /\ creates[c].path = fs[q].path
              /\ creates[c].content = fs[q].content
              /\ \A d \in (c + 1)..Len(creates) : creates[d].path # fs[q].path

C9_Witness ==
    /\ pc = "write"
    /\ Len(creates) >= 1
    /\ Len(active_lines) >= 2
    /\ pos <= Len(lines)

\* a raw row with a required value absent, of the wrong type or unparseable
Malformed(row) ==
    \/ row.latitudeE7.tag # "int"
    \/ row.longitudeE7.tag # "int"
    \/ row.timestamp.tag # "time"

====
